---- MODULE Spec2Model ----
(***************************************************************************)
(* OHCI Isochronous Transmit DMA program builder (tools/it_dma_program.py) *)
(* as a state machine: one ITProgramBuilder instance, its block list, its  *)
(* DBC counter and payload cursor, and the calls made on it.               *)
(*                                                                         *)
(* Python integers are unbounded while TLC integers are 32-bit signed, so  *)
(* every value that can reach 2^31 (addresses, pointers, header quadlets)  *)
(* is kept as a pair of limbs [hi, lo] standing for hi * 65536 + lo with   *)
(* lo in 0..65535.  Byte strings are sequences of numbers in 0..255.       *)
(*                                                                         *)
(* call is the call made last with its arguments and raised the exception  *)
(* it ended with ("None" when it returned).  What a call returns is a      *)
(* function of the state it leaves: add_* return the last block, and       *)
(* finalize_ring returns returned_bytes.  before is the builder's mutable  *)
(* state as it was when the last call was made.                            *)
(*                                                                         *)
(* Spec is the builder driven through its methods.  SpecValidate adds      *)
(* validate and blocks appended by hand, SpecCodec calls the codec         *)
(* functions on their own, and SpecDiagnoser calls analyze_it_log on log   *)
(* texts; a call of a module-level function records what it returned in    *)
(* call.ret.                                                               *)
(***************************************************************************)
EXTENDS Integers, Sequences, FiniteSets, TLC

VARIABLES base_address, skip_strategy, blocks, dbc, payload_offset, call, raised, before

vars == <<base_address, skip_strategy, blocks, dbc, payload_offset, call, raised, before>>

(***************************************************************************)
(* Bounds of the model                                                     *)
(***************************************************************************)
\* number of add_data_packet / add_nodata_packet calls made on the builder
MaxCalls == 2

(***************************************************************************)
(* Limb arithmetic for Python integers of up to 47 bits                    *)
(***************************************************************************)
U(h, l) == [hi |-> h, lo |-> l]

AddU(a, n) == U(a.hi + ((a.lo + n) \div 65536), (a.lo + n) % 65536)

SubU(a, n) == IF a.lo >= n THEN U(a.hi, a.lo - n) ELSE U(a.hi - 1, a.lo + 65536 - n)

\* a - b for a >= b, as a plain number (the difference is small in every use)
DiffU(a, b) == (a.hi - b.hi) * 65536 + (a.lo - b.lo)

\* x & 0xFFFFFFFF
Mask32(a) == U(a.hi % 65536, a.lo)

\* x & 0xFFFFFFF0
AddrPart(a) == U(a.hi % 65536, a.lo - (a.lo % 16))

\* x & 0xF
LowNibble(a) == a.lo % 16

RECURSIVE Concat(_)
Concat(ss) == IF ss = <<>> THEN <<>> ELSE Head(ss) \o Concat(Tail(ss))

RECURSIVE SumSeq(_)
SumSeq(s) == IF s = <<>> THEN 0 ELSE Head(s) + SumSeq(Tail(s))

Zeros(n) == [i \in 1..n |-> 0]

\* struct.pack("<H", v) and struct.pack("<I", v)
LE16(v) == <<v % 256, v \div 256>>
LE32(w) == LE16(w.lo) \o LE16(w.hi)

(***************************************************************************)
(* Constants of the program                                                *)
(***************************************************************************)
ITCmd == [OUTPUT_MORE |-> 0, OUTPUT_LAST |-> 1, STORE_VALUE |-> 8]
ITKey == [STANDARD |-> 0, IMMEDIATE |-> 2, STORE |-> 6]
ITIrq == [NONE |-> 0, ALWAYS |-> 3]
ITBranch == [NEVER |-> 0, ALWAYS |-> 3]
ITWait == [NEVER |-> 0]
SkipStrategy == {"NEXT", "SELF", "SENTINEL"}
BLOCK_SIZE == 16
Speed_S400 == 2
channel == 0

\* Optional[int]
None == <<>>
Some(v) == <<v>>

(***************************************************************************)
(* Control field and pointer packing                                       *)
(***************************************************************************)
\* mutant: the key field is shifted by 9, not by 8
make_control_key_at_9(cmd, status_write, key, irq, branch, wait) ==
    LET s == IF status_write THEN 1 ELSE 0
        control == ((cmd % 16) * 4096) + ((s % 2) * 2048) + ((key % 8) * 512)
                   + ((irq % 4) * 16) + ((branch % 4) * 4) + (wait % 4)
    IN control % 65536

\* the bit fields are disjoint, so | is +
make_control(cmd, status_write, key, irq, branch, wait) ==
    LET s == IF status_write THEN 1 ELSE 0
        control == ((cmd % 16) * 4096) + ((s % 2) * 2048) + ((key % 8) * 256)
                   + ((irq % 4) * 16) + ((branch % 4) * 4) + (wait % 4)
    IN control % 65536

pack_desc16(req_count, control, data_address, branch_address_with_z, res_count, transfer_status) ==
    LE16(req_count % 65536) \o LE16(control % 65536)
    \o LE32(Mask32(data_address)) \o LE32(Mask32(branch_address_with_z))
    \o LE16(res_count % 65536) \o LE16(transfer_status % 65536)

\* mutant: Z is masked to three bits
pack_ptr_with_z_three_bits(addr, z) == U(addr.hi % 65536, (addr.lo - (addr.lo % 16)) + (z % 8))

pack_ptr_with_z(addr, z) == U(addr.hi % 65536, (addr.lo - (addr.lo % 16)) + (z % 16))

build_it_header_q0(speed, tag, chan, sy, tcode) ==
    LET q0 == ((speed % 8) * 65536) + ((tag % 4) * 16384) + ((chan % 64) * 256)
              + ((tcode % 16) * 16) + (sy % 16)
    IN U(q0 \div 65536, q0 % 65536)

build_it_header_q1(data_length_bytes) == U(data_length_bytes % 65536, 0)

(***************************************************************************)
(* Descriptors: records tagged with their class                            *)
(***************************************************************************)
NullU == U(0, 0)

StoreValue(store_value, store_address) ==
    [cls |-> "StoreValue", size |-> 16, store_value |-> store_value,
     store_address |-> store_address, skip_address |-> NullU, skip_z |-> 0,
     irq |-> FALSE]

OutputMoreImmediate(it_q0, it_q1) ==
    [cls |-> "OutputMoreImmediate", size |-> 32, it_q0 |-> it_q0, it_q1 |-> it_q1,
     skip_address |-> NullU, skip_z |-> 0, irq_on_skip |-> FALSE]

OutputMore(req_count, data_address) ==
    [cls |-> "OutputMore", size |-> 16, req_count |-> req_count,
     data_address |-> data_address]

OutputLast(req_count, data_address, irq_on_complete) ==
    [cls |-> "OutputLast", size |-> 16, req_count |-> req_count,
     data_address |-> data_address, branch_address |-> NullU, branch_z |-> 0,
     write_status |-> TRUE, irq_on_complete |-> irq_on_complete]

StoreValue_to_bytes(d) ==
    pack_desc16(d.store_value % 65536,
                make_control(ITCmd.STORE_VALUE, FALSE, ITKey.STORE,
                             IF d.irq THEN ITIrq.ALWAYS ELSE ITIrq.NONE,
                             ITBranch.NEVER, ITWait.NEVER),
                d.store_address,
                pack_ptr_with_z(d.skip_address, d.skip_z), 0, 0)

\* mutant: the padding of the second 16-byte block is forgotten
OutputMoreImmediate_to_bytes_unpadded(d) ==
    LET control == make_control(ITCmd.OUTPUT_MORE, FALSE, ITKey.IMMEDIATE,
                                IF d.irq_on_skip THEN ITIrq.ALWAYS ELSE ITIrq.NONE,
                                ITBranch.NEVER, ITWait.NEVER)
    IN LE32(U(control % 65536, 8)) \o LE32(pack_ptr_with_z(d.skip_address, d.skip_z))
       \o LE32(Mask32(d.it_q0)) \o LE32(Mask32(d.it_q1))

OutputMoreImmediate_to_bytes(d) ==
    LET control == make_control(ITCmd.OUTPUT_MORE, FALSE, ITKey.IMMEDIATE,
                                IF d.irq_on_skip THEN ITIrq.ALWAYS ELSE ITIrq.NONE,
                                ITBranch.NEVER, ITWait.NEVER)
    IN LE32(U(control % 65536, 8)) \o LE32(pack_ptr_with_z(d.skip_address, d.skip_z))
       \o LE32(Mask32(d.it_q0)) \o LE32(Mask32(d.it_q1)) \o Zeros(16)

OutputMore_to_bytes(d) ==
    pack_desc16(d.req_count,
                make_control(ITCmd.OUTPUT_MORE, FALSE, ITKey.STANDARD, ITIrq.NONE,
                             ITBranch.NEVER, ITWait.NEVER),
                d.data_address, NullU, 0, 0)

OutputLast_to_bytes(d) ==
    pack_desc16(d.req_count,
                make_control(ITCmd.OUTPUT_LAST, d.write_status, ITKey.STANDARD,
                             IF d.irq_on_complete THEN ITIrq.ALWAYS ELSE ITIrq.NONE,
                             ITBranch.ALWAYS, ITWait.NEVER),
                d.data_address,
                pack_ptr_with_z(d.branch_address, d.branch_z), 0, 0)

OutputLastImmediate_to_bytes(d) ==
    LET control == make_control(ITCmd.OUTPUT_LAST, d.write_status, ITKey.IMMEDIATE,
                                IF d.irq_on_complete THEN ITIrq.ALWAYS ELSE ITIrq.NONE,
                                ITBranch.ALWAYS, ITWait.NEVER)
    IN LE32(U(control % 65536, 8)) \o LE32(pack_ptr_with_z(d.branch_address, d.branch_z))
       \o LE32(Mask32(d.it_q0)) \o LE32(Mask32(d.it_q1)) \o Zeros(16)

OutputLastSkip_to_bytes(d) ==
    pack_desc16(0,
                make_control(ITCmd.OUTPUT_LAST, TRUE, ITKey.STANDARD,
                             IF d.irq_on_complete THEN ITIrq.ALWAYS ELSE ITIrq.NONE,
                             ITBranch.ALWAYS, ITWait.NEVER),
                NullU,
                pack_ptr_with_z(d.branch_address, d.branch_z), 0, 0)

\* dynamic dispatch of ITDescriptor.to_bytes
to_bytes(d) ==
    CASE d.cls = "StoreValue" -> StoreValue_to_bytes(d)
      [] d.cls = "OutputMoreImmediate" -> OutputMoreImmediate_to_bytes(d)
      [] d.cls = "OutputMore" -> OutputMore_to_bytes(d)
      [] d.cls = "OutputLast" -> OutputLast_to_bytes(d)
      [] d.cls = "OutputLastImmediate" -> OutputLastImmediate_to_bytes(d)
      [] d.cls = "OutputLastSkip" -> OutputLastSkip_to_bytes(d)

(***************************************************************************)
(* DescriptorBlock                                                         *)
(***************************************************************************)
DescriptorBlock(descriptors, address) == [descriptors |-> descriptors, address |-> address]

\* mutant: Z is the number of descriptors, an immediate one counted once
z_value_descriptor_count(block) == Len(block.descriptors)

z_value(block) ==
    LET total_bytes == SumSeq([i \in 1..Len(block.descriptors) |-> block.descriptors[i].size])
    IN (total_bytes + 15) \div 16

block_to_bytes(block) ==
    Concat([i \in 1..Len(block.descriptors) |-> to_bytes(block.descriptors[i])])

(***************************************************************************)
(* Inputs the calls are made with                                          *)
(***************************************************************************)
\* 0x80000000 (the default) and 0x80000008
Bases == {U(32768, 0), U(32768, 8)}

Intent(samples, channels, fragments, store_val, irq) ==
    [samples |-> samples, channels |-> channels, fragments |-> fragments,
     store_val |-> store_val, irq |-> irq]

\* payload 72 in 1 fragment; 72 in 3 fragments of 24 behind a StoreValue;
\* 65544 in 5 fragments (4 * 13108 + 13112); 65544 in 1 fragment;
\* 56 in 14 fragments of 4 (16 blocks of 16 bytes: Z = 16);
\* 56 in 13 fragments (12 * 4 + 8, Z = 15);
\* 72 in 4 fragments (of 18 bytes: unaligned); and a call with fragments = 0
DataIntents ==
    {Intent(8, 2, 1, None, FALSE),
     Intent(8, 2, 3, Some(4660), TRUE),
     Intent(8192, 2, 5, None, FALSE),
     Intent(8192, 2, 1, Some(4660), FALSE),
     Intent(6, 2, 14, None, FALSE),
     Intent(6, 2, 13, None, TRUE),
     Intent(8, 2, 4, None, FALSE),
     Intent(8, 2, 0, None, FALSE)}

NoDataIntents == {[channels |-> 8, irq |-> FALSE], [channels |-> 8, irq |-> TRUE]}

(***************************************************************************)
(* ITProgramBuilder                                                        *)
(***************************************************************************)
payload_base == AddU(base_address, 65536)

sentinel_addr == AddU(base_address, 65280)

Init ==
    /\ base_address \in Bases
    /\ skip_strategy \in SkipStrategy
    /\ blocks = <<>>
    /\ dbc = 0
    /\ payload_offset = 0
    /\ call = [op |-> "__init__", n |-> 0]
    /\ raised = "None"
    /\ before = [blocks |-> <<>>, dbc |-> 0, payload_offset |-> 0]

\* the mutable state of the builder, recorded when a call is made
snapshot == [blocks |-> blocks, dbc |-> dbc, payload_offset |-> payload_offset]

\* mutant: the cursor advances by one block per descriptor, not by zValue
_next_block_address_by_descriptors ==
    IF blocks = <<>> THEN base_address
    ELSE LET last == blocks[Len(blocks)]
         IN AddU(last.address, Len(last.descriptors) * BLOCK_SIZE)

_next_block_address ==
    IF blocks = <<>> THEN base_address
    ELSE LET last == blocks[Len(blocks)]
         IN AddU(last.address, z_value(last) * BLOCK_SIZE)

\* _alloc_payload: the address it returns and the cursor it leaves
_alloc_payload_addr == AddU(payload_base, payload_offset)

\* mutant: the size is rounded down to a multiple of 16
_alloc_payload_offset_rounded_down(size) == payload_offset + ((size \div 16) * 16)

_alloc_payload_offset(size) == payload_offset + (((size + 15) \div 16) * 16)

payload_len_of(samples, channels) == 8 + (samples * channels * 4)

frag_size_of(payload_len, fragments) == payload_len \div fragments

\* mutant: the remainder of the division is dropped
rem_size_of_dropped(payload_len, fragments) == 0

rem_size_of(payload_len, fragments) == payload_len % fragments

\* mutant: the alignment of the fragment size is not checked
frag_aligned_unchecked(frag_size) == TRUE

frag_aligned(frag_size) == frag_size % 4 = 0

\* the descriptor list of a DATA packet whose payload starts at payload_addr
data_descriptors(samples, channels, fragments, store_val, irq, payload_addr) ==
    LET payload_len == payload_len_of(samples, channels)
        it_q0 == build_it_header_q0(Speed_S400, 1, channel, 0, 10)
        it_q1 == build_it_header_q1(payload_len)
        store == IF store_val # None
                 THEN <<StoreValue(store_val[1], SubU(payload_base, 4))>>
                 ELSE <<>>
        header == <<OutputMoreImmediate(it_q0, it_q1)>>
        frag_size == frag_size_of(payload_len, fragments)
        rem_size == rem_size_of(payload_len, fragments)
        more == [i \in 1..(fragments - 1) |->
                    OutputMore(frag_size, AddU(payload_addr, (i - 1) * frag_size))]
        last_size == frag_size + rem_size
        last == <<OutputLast(last_size,
                             AddU(payload_addr, (fragments - 1) * frag_size), irq)>>
    IN store \o header \o more \o last

\* mutant: the block is appended before the fragment size is validated
add_data_packet_append_first(samples, channels, fragments, store_val, irq) ==
    LET payload_len == payload_len_of(samples, channels)
        payload_addr == _alloc_payload_addr
    IN /\ call.n < MaxCalls
       /\ before' = snapshot
       /\ call' = [op |-> "add_data_packet", n |-> call.n + 1, samples |-> samples,
                   channels |-> channels, fragments |-> fragments,
                   store_val |-> store_val, irq |-> irq]
       /\ dbc' = (dbc + samples) % 256
       /\ payload_offset' = _alloc_payload_offset(payload_len)
       /\ IF fragments = 0
          THEN /\ raised' = "ZeroDivisionError"
               /\ blocks' = blocks
          ELSE /\ blocks' = Append(blocks, DescriptorBlock(
                                data_descriptors(samples, channels, fragments,
                                                 store_val, irq, payload_addr),
                                _next_block_address))
               /\ raised' = IF frag_aligned(frag_size_of(payload_len, fragments))
                            THEN "None" ELSE "ValueError"
       /\ UNCHANGED <<base_address, skip_strategy>>

add_data_packet(samples, channels, fragments, store_val, irq) ==
    LET payload_len == payload_len_of(samples, channels)
        payload_addr == _alloc_payload_addr
    IN /\ call.n < MaxCalls
       /\ before' = snapshot
       /\ call' = [op |-> "add_data_packet", n |-> call.n + 1, samples |-> samples,
                   channels |-> channels, fragments |-> fragments,
                   store_val |-> store_val, irq |-> irq]
       /\ dbc' = (dbc + samples) % 256
       /\ payload_offset' = _alloc_payload_offset(payload_len)
       /\ IF fragments = 0
          THEN /\ raised' = "ZeroDivisionError"
               /\ blocks' = blocks
          ELSE IF ~frag_aligned(frag_size_of(payload_len, fragments))
          THEN /\ raised' = "ValueError"
               /\ blocks' = blocks
          ELSE LET block == DescriptorBlock(
                                data_descriptors(samples, channels, fragments,
                                                 store_val, irq, payload_addr),
                                _next_block_address)
               IN /\ blocks' = Append(blocks, block)
                  /\ raised' = "None"
       /\ UNCHANGED <<base_address, skip_strategy>>

\* The class body defines add_nodata_packet, finalize_ring and validate twice;
\* Python binds the later definitions, which are the ones modelled.
add_nodata_packet(channels, irq) ==
    LET payload_len == 8
        payload_addr == _alloc_payload_addr
        it_q0 == build_it_header_q0(Speed_S400, 1, channel, 0, 10)
        it_q1 == build_it_header_q1(payload_len)
        block == DescriptorBlock(<<OutputMoreImmediate(it_q0, it_q1),
                                   OutputLast(payload_len, payload_addr, irq)>>,
                                 _next_block_address)
    IN /\ call.n < MaxCalls
       /\ before' = snapshot
       /\ call' = [op |-> "add_nodata_packet", n |-> call.n + 1,
                   channels |-> channels, irq |-> irq]
       /\ payload_offset' = _alloc_payload_offset(payload_len)
       /\ blocks' = Append(blocks, block)
       /\ raised' = "None"
       /\ UNCHANGED <<base_address, skip_strategy, dbc>>

\* mutant: no wraparound, the last block is linked to itself
next_idx_of_no_wrap(i, count) == IF i + 1 < count THEN i + 1 ELSE i

next_idx_of(i, count) == (i + 1) % count

\* mutant: the Z of a terminal branch pointer is added to the one already there
link_descriptor_accumulating(desc, i) ==
    LET count == Len(blocks)
        block == blocks[i + 1]
        next_block == blocks[next_idx_of(i, count) + 1]
        skip_addr == CASE skip_strategy = "NEXT" -> next_block.address
                       [] skip_strategy = "SELF" -> block.address
                       [] OTHER -> sentinel_addr
        skip_z == CASE skip_strategy = "NEXT" -> z_value(next_block)
                    [] skip_strategy = "SELF" -> z_value(block)
                    [] OTHER -> 1
    IN CASE desc.cls = "StoreValue" ->
              [desc EXCEPT !.skip_address = skip_addr, !.skip_z = skip_z]
         [] desc.cls = "OutputMoreImmediate" ->
              [desc EXCEPT !.skip_address = skip_addr, !.skip_z = skip_z]
         [] desc.cls \in {"OutputLast", "OutputLastSkip"} ->
              [desc EXCEPT !.branch_address = next_block.address,
                           !.branch_z = desc.branch_z + z_value(next_block)]
         [] OTHER -> desc

\* mutant: every skip pointer goes to the next block, whatever the strategy
link_descriptor_skip_to_next(desc, i) ==
    LET count == Len(blocks)
        next_block == blocks[next_idx_of(i, count) + 1]
    IN CASE desc.cls = "StoreValue" ->
              [desc EXCEPT !.skip_address = next_block.address,
                           !.skip_z = z_value(next_block)]
         [] desc.cls = "OutputMoreImmediate" ->
              [desc EXCEPT !.skip_address = next_block.address,
                           !.skip_z = z_value(next_block)]
         [] desc.cls \in {"OutputLast", "OutputLastSkip"} ->
              [desc EXCEPT !.branch_address = next_block.address,
                           !.branch_z = z_value(next_block)]
         [] OTHER -> desc

\* one descriptor of blocks[i] after the update loop of finalize_ring
\* (indices are Python's: blocks[i] is blocks[i + 1] here)
link_descriptor(desc, i) ==
    LET count == Len(blocks)
        block == blocks[i + 1]
        next_block == blocks[next_idx_of(i, count) + 1]
        skip_addr == CASE skip_strategy = "NEXT" -> next_block.address
                       [] skip_strategy = "SELF" -> block.address
                       [] OTHER -> sentinel_addr
        skip_z == CASE skip_strategy = "NEXT" -> z_value(next_block)
                    [] skip_strategy = "SELF" -> z_value(block)
                    [] OTHER -> 1
    IN CASE desc.cls = "StoreValue" ->
              [desc EXCEPT !.skip_address = skip_addr, !.skip_z = skip_z]
         [] desc.cls = "OutputMoreImmediate" ->
              [desc EXCEPT !.skip_address = skip_addr, !.skip_z = skip_z]
         [] desc.cls \in {"OutputLast", "OutputLastSkip"} ->
              [desc EXCEPT !.branch_address = next_block.address,
                           !.branch_z = z_value(next_block)]
         [] OTHER -> desc

\* b''.join(b.to_bytes() for b in self.blocks), what finalize_ring returns
returned_bytes == Concat([i \in 1..Len(blocks) |-> block_to_bytes(blocks[i])])

\* self.blocks as the update loop of finalize_ring leaves it
linked_blocks ==
    IF blocks = <<>>
    THEN blocks
    ELSE [i \in 1..Len(blocks) |->
             [blocks[i] EXCEPT !.descriptors =
                 [j \in 1..Len(blocks[i].descriptors) |->
                     link_descriptor(blocks[i].descriptors[j], i - 1)]]]

finalize_ring ==
    /\ call' = [op |-> "finalize_ring", n |-> call.n]
    /\ before' = snapshot
    /\ blocks' = linked_blocks
    /\ raised' = "None"
    /\ UNCHANGED <<base_address, skip_strategy, dbc, payload_offset>>

Next ==
    \/ \E p \in DataIntents :
          add_data_packet(p.samples, p.channels, p.fragments, p.store_val, p.irq)
    \/ \E p \in NoDataIntents : add_nodata_packet(p.channels, p.irq)
    \/ finalize_ring

Spec == Init /\ [][Next]_vars

(***************************************************************************)
(* Reading the serialized program back                                     *)
(***************************************************************************)
N == Len(blocks)

AddCalls == {"add_data_packet", "add_nodata_packet"}

\* finalize_ring has just returned the bytes of a non-empty program
Finalized == call.op = "finalize_ring" /\ blocks # <<>>

\* the little-endian 32-bit word at byte offset off (from 0) of bytes
WordAt(bytes, off) ==
    U(bytes[off + 4] * 256 + bytes[off + 3], bytes[off + 2] * 256 + bytes[off + 1])

HalfAt(bytes, off) == bytes[off + 2] * 256 + bytes[off + 1]

\* where block i and its j-th descriptor begin in the returned bytes
BlockOffset(i) == SumSeq([k \in 1..(i - 1) |-> Len(block_to_bytes(blocks[k]))])

DescOffset(i, j) ==
    BlockOffset(i) + SumSeq([k \in 1..(j - 1) |-> Len(to_bytes(blocks[i].descriptors[k]))])

\* the branch or skip pointer word of descriptor j of block i as serialized
\* in out: the third word of a 16-byte descriptor, the second of an
\* immediate one
PointerWord(out, i, j) ==
    IF blocks[i].descriptors[j].cls \in {"OutputMoreImmediate", "OutputLastImmediate"}
    THEN WordAt(out, DescOffset(i, j) + 4)
    ELSE WordAt(out, DescOffset(i, j) + 8)

Terminal(i) == Len(blocks[i].descriptors)

TerminalBranchWord(out, i) == PointerWord(out, i, Terminal(i))

\* successor of block i in circular order (blocks are numbered from 1 here)
Succ(i) == (i % N) + 1

Units(bs, i) == SumSeq([k \in 1..Len(bs[i].descriptors) |->
                          IF bs[i].descriptors[k].cls = "OutputMoreImmediate" THEN 2 ELSE 1])

Aligned16(a) == a.lo % 16 = 0

(***************************************************************************)
(* C1  Ring closure: after finalize_ring, starting at block 0 and          *)
(* following the address part of the current block's terminal branch       *)
(* pointer visits all N blocks, each exactly once, and is back at block 0  *)
(* after exactly N steps, for every skip strategy.                         *)
(***************************************************************************)
\* the block lying at address a, 0 when there is none
BlockAt(a) == IF \E i \in 1..N : blocks[i].address = a
              THEN CHOOSE i \in 1..N : blocks[i].address = a
              ELSE 0

\* the block each block's serialized terminal branch pointer leads to
BranchTargets(out) == [i \in 1..N |-> BlockAt(AddrPart(TerminalBranchWord(out, i)))]

RECURSIVE Walk(_, _, _)
Walk(next, i, k) == IF k = 0 \/ i = 0 THEN i ELSE Walk(next, next[i], k - 1)

RingClosed(next) ==
    /\ Walk(next, 1, N) = 1
    /\ {Walk(next, 1, k) : k \in 0..(N - 1)} = 1..N

C1_RingClosure == Finalized => RingClosed(BranchTargets(returned_bytes))

\* the same closure for builders whose base address is 16-byte aligned
C1_RingClosureAlignedBase == Aligned16(base_address) => C1_RingClosure

(***************************************************************************)
(* C2  After finalize_ring every branch or skip pointer that targets a     *)
(* ring block carries in its low 4 bits that block's zValue.               *)
(***************************************************************************)
\* the ring block a pointer of descriptor j of block i targets, 0 if none
TargetOf(i, j) ==
    LET cls == blocks[i].descriptors[j].cls
    IN CASE cls = "OutputLast" -> Succ(i)
         [] cls \in {"StoreValue", "OutputMoreImmediate"} ->
              (CASE skip_strategy = "NEXT" -> Succ(i)
                 [] skip_strategy = "SELF" -> i
                 [] OTHER -> 0)
         [] OTHER -> 0

ZNibblesMatch(out) ==
    \A i \in 1..N : \A j \in 1..Len(blocks[i].descriptors) :
        TargetOf(i, j) # 0 =>
            LowNibble(PointerWord(out, i, j)) = z_value(blocks[TargetOf(i, j)])

C2_ZNibbleIsTargetZ == Finalized => ZNibblesMatch(returned_bytes)

(***************************************************************************)
(* C3  Address allocation is strictly sequential: blocks[0].address is the *)
(* base and blocks[i+1].address = blocks[i].address + blocks[i].zValue*16; *)
(* finalize_ring does not change any block address.                        *)
(***************************************************************************)
Addresses(bs) == [i \in 1..Len(bs) |-> bs[i].address]

SequentialAddresses ==
    /\ blocks # <<>> => blocks[1].address = base_address
    /\ \A i \in 1..(N - 1) :
          blocks[i + 1].address = AddU(blocks[i].address, Units(blocks, i) * 16)
    /\ \A i \in 1..N : z_value(blocks[i]) = Units(blocks, i)

C3_SequentialAddresses ==
    /\ SequentialAddresses
    /\ call.op = "finalize_ring" => Addresses(blocks) = Addresses(before.blocks)

C3_Witness ==
    /\ Finalized
    /\ N = 2
    /\ z_value(blocks[1]) > 3
    /\ blocks[2].address = AddU(base_address, z_value(blocks[1]) * 16)

(***************************************************************************)
(* C4  Size conservation: the bytes finalize_ring returns are as long as   *)
(* the sum of zValue*16 over the blocks, and block i's bytes start at      *)
(* offset blocks[i].address - base.                                        *)
(***************************************************************************)
SizeConserved(out) ==
    /\ Len(out) = SumSeq([i \in 1..N |-> z_value(blocks[i]) * 16])
    /\ \A i \in 1..N :
          LET off == DiffU(blocks[i].address, base_address)
          IN SubSeq(out, off + 1, off + (z_value(blocks[i]) * 16))
                 = block_to_bytes(blocks[i])

C4_SizeConservation == call.op = "finalize_ring" => SizeConserved(returned_bytes)

C4_Witness ==
    /\ Finalized
    /\ N >= 2
    /\ \E i \in 1..N : blocks[i].descriptors[1].cls = "StoreValue"
    /\ Len(returned_bytes) > 96

(***************************************************************************)
(* C5  Fragmentation conservation: after a successful add_data_packet with *)
(* fragments >= 1 and payloadLen = 8 + samples*channels*4, the reqCounts   *)
(* of the block's OutputMore descriptors and its OutputLast sum to         *)
(* payloadLen, each is a multiple of 4, each of the fragments-1 OutputMore *)
(* reqCounts is payloadLen // fragments, the OutputLast reqCount is        *)
(* payloadLen // fragments + payloadLen mod fragments, and the fragments'  *)
(* data addresses are consecutive within the packet's payload buffer.      *)
(***************************************************************************)
DataAdded == call.op = "add_data_packet" /\ raised = "None"

IsFragment(d) == d.cls \in {"OutputMore", "OutputLast"}

IsOutputMore(d) == d.cls = "OutputMore"

C5_FragmentationConservation ==
    (DataAdded /\ call.fragments >= 1) =>
        LET payloadLen == 8 + (call.samples * call.channels * 4)
            ds == blocks[N].descriptors
            frags == SelectSeq(ds, IsFragment)
            more == SelectSeq(ds, IsOutputMore)
            last == ds[Len(ds)]
            payload_addr == AddU(payload_base, before.payload_offset)
        IN /\ last.cls = "OutputLast"
           /\ Len(more) = call.fragments - 1
           /\ frags = more \o <<last>>
           /\ SumSeq([k \in 1..Len(frags) |-> frags[k].req_count]) = payloadLen
           /\ \A k \in 1..Len(frags) : frags[k].req_count % 4 = 0
           /\ \A k \in 1..Len(more) : more[k].req_count = payloadLen \div call.fragments
           /\ last.req_count = (payloadLen \div call.fragments) + (payloadLen % call.fragments)
           /\ frags[1].data_address = payload_addr
           /\ \A k \in 1..(Len(frags) - 1) :
                 frags[k + 1].data_address = AddU(frags[k].data_address, frags[k].req_count)
           /\ AddU(last.data_address, last.req_count) = AddU(payload_addr, payloadLen)

\* five fragments of a 65544-byte payload: four of 13108 and a last of 13112
C5_Witness ==
    /\ DataAdded
    /\ call.fragments = 5
    /\ blocks[N].descriptors[Terminal(N)].req_count = 13112
    /\ blocks[N].descriptors[Terminal(N) - 1].req_count = 13108

(***************************************************************************)
(* C6  add_data_packet fails with the unaligned-fragment error, adding no  *)
(* block, whenever a fragment size it would produce (the common size       *)
(* payloadLen // fragments or the last fragment with the remainder) is not *)
(* a multiple of 4; no fragment whose size is not a multiple of 4 is ever  *)
(* emitted.                                                                *)
(***************************************************************************)
C6_UnalignedFragmentRejected ==
    /\ (call.op = "add_data_packet" /\ call.fragments >= 1) =>
          LET payloadLen == 8 + (call.samples * call.channels * 4)
              common == payloadLen \div call.fragments
              final == common + (payloadLen % call.fragments)
          IN (common % 4 # 0 \/ final % 4 # 0) =>
                 (raised = "ValueError" /\ blocks = before.blocks)
    /\ \A i \in 1..N : \A j \in 1..Len(blocks[i].descriptors) :
          IsFragment(blocks[i].descriptors[j]) =>
              blocks[i].descriptors[j].req_count % 4 = 0

\* 72 bytes in 4 fragments of 18 is refused while a block is already there
C6_Witness ==
    /\ call.op = "add_data_packet"
    /\ call.fragments = 4
    /\ raised = "ValueError"
    /\ N = 1

(***************************************************************************)
(* C7  Encoding a descriptor whose reqCount exceeds 0xFFFF fails with a    *)
(* field-overflow error: no descriptor is ever serialized with a reqCount  *)
(* field that differs from the requested byte count.                       *)
(***************************************************************************)
ReqCountsFaithful(out) ==
    \A i \in 1..N : \A j \in 1..Len(blocks[i].descriptors) :
        IsFragment(blocks[i].descriptors[j]) =>
            HalfAt(out, DescOffset(i, j)) = blocks[i].descriptors[j].req_count

C7_ReqCountOverflowFails ==
    (call.op = "finalize_ring" /\ raised = "None") => ReqCountsFaithful(returned_bytes)

(***************************************************************************)
(* C8  A supplied address that is not a multiple of 16 is refused, so      *)
(* every block address in any program state is a multiple of 16 and no     *)
(* pointer is packed from an unaligned address.                            *)
(***************************************************************************)
C8_AddressesAligned == \A i \in 1..N : Aligned16(blocks[i].address)

(***************************************************************************)
(* C9  A failing add_data_packet leaves the block list as it was (same     *)
(* length, same addresses, same descriptors with the same field values),   *)
(* and the next block will be placed at the address it would have had      *)
(* without the failed call.                                                *)
(***************************************************************************)
\* where the block after bs goes: the base plus 16 bytes per block unit
ExpectedNextAddress(bs) ==
    AddU(base_address, 16 * SumSeq([i \in 1..Len(bs) |-> Units(bs, i)]))

DataFailed == call.op = "add_data_packet" /\ raised # "None"

C9_FailedAddKeepsBlocks ==
    /\ DataFailed =>
          /\ blocks = before.blocks
          /\ _next_block_address = ExpectedNextAddress(before.blocks)
    /\ (call.op \in AddCalls /\ raised = "None") =>
          /\ SubSeq(blocks, 1, N - 1) = before.blocks
          /\ blocks[N].address = ExpectedNextAddress(before.blocks)

C9_Witness == DataFailed /\ N = 1 /\ blocks = before.blocks

(***************************************************************************)
(* C10  For every block i, finalize_ring sets the terminal descriptor's    *)
(* branch pointer to pack(target.address, target.zValue) where target is   *)
(* blocks[(i+1) mod N] under NEXT, blocks[i] under SELF and the sentinel   *)
(* address with Z = 1 under SENTINEL.                                      *)
(***************************************************************************)
StrategyTargetPointer(i) ==
    CASE skip_strategy = "NEXT" ->
           pack_ptr_with_z(blocks[Succ(i)].address, z_value(blocks[Succ(i)]))
      [] skip_strategy = "SELF" ->
           pack_ptr_with_z(blocks[i].address, z_value(blocks[i]))
      [] OTHER -> pack_ptr_with_z(sentinel_addr, 1)

BranchesFollowStrategy(out) ==
    \A i \in 1..N : TerminalBranchWord(out, i) = StrategyTargetPointer(i)

C10_BranchFollowsStrategy == Finalized => BranchesFollowStrategy(returned_bytes)

\* C10 as amended: under every strategy the terminal descriptor's branch
\* pointer is pack(address, zValue) of blocks[(i+1) mod N]
BranchesAreNextBlock(out) ==
    \A i \in 1..N :
        /\ TerminalBranchWord(out, i) =
              pack_ptr_with_z(blocks[Succ(i)].address, Units(blocks, Succ(i)))
        /\ blocks[i].descriptors[Terminal(i)].branch_address = blocks[Succ(i)].address
        /\ blocks[i].descriptors[Terminal(i)].branch_z = Units(blocks, Succ(i))

C10_BranchIsNextBlock == Finalized => BranchesAreNextBlock(returned_bytes)

C10_Witness ==
    /\ Finalized
    /\ N = 2
    /\ skip_strategy = "SELF"
    /\ blocks[2].descriptors[Terminal(2)].branch_address = blocks[1].address
    /\ blocks[1].descriptors[Terminal(1)].branch_address = blocks[2].address

(***************************************************************************)
(* C11  finalize_ring is idempotent: called twice in a row on the same     *)
(* builder (same strategy, same block set) it returns byte-identical       *)
(* output and leaves every branch and skip pointer field exactly as after  *)
(* the first call.  The bytes returned are a function of the block list,   *)
(* so the second call returns the same bytes when it leaves the list as    *)
(* the first call left it.                                                 *)
(***************************************************************************)
C11_FinalizeIdempotent == call.op = "finalize_ring" => linked_blocks = blocks

\* the second of two calls in a row, on a linked ring of two blocks
C11_Witness ==
    /\ Finalized
    /\ N = 2
    /\ before.blocks = blocks
    /\ blocks[1].descriptors[Terminal(1)].branch_address = blocks[2].address
    /\ blocks[1].descriptors[1].skip_z # 0

(***************************************************************************)
(* The codec functions called on their own                                 *)
(*                                                                         *)
(* make_control and pack_ptr_with_z are module-level functions of          *)
(* it_dma_program.py; build_control_word and decode_control_word are those *)
(* of verify_control_word.py.  A call is recorded in call with its         *)
(* arguments and the value it returned (ret).  A 32-bit control word is    *)
(* the pair of limbs [hi |-> control half-word, lo |-> reqCount].          *)
(* The functions keep no state, so what a call returns does not depend on  *)
(* the calls before it: each behaviour makes one call.                     *)
(***************************************************************************)
Fresh == call.op = "__init__"

build_control_word(reqCount, cmd, key, i, b, ping) ==
    LET high == ((cmd % 16) * 4096) + ((key % 8) * 256) + ((i % 4) * 16)
                + ((b % 4) * 4) + (IF ping THEN 128 ELSE 0)
    IN U(high % 65536, reqCount % 65536)

decode_control_word(control) ==
    LET high == control.hi % 65536
    IN [reqCount |-> control.lo,
        cmd |-> (high \div 4096) % 16,
        key |-> (high \div 256) % 8,
        ping |-> (high \div 128) % 2,
        i |-> (high \div 16) % 4,
        b |-> (high \div 4) % 4,
        wait |-> high % 4,
        high |-> high]

\* the field values make_control is called with: every value of every field
ControlFields ==
    [cmd : 0..15, status_write : BOOLEAN, key : 0..7, irq : 0..3, branch : 0..3,
     wait : 0..3]

\* 12, 0, the largest reqCount and one that does not fit 16 bits
ReqCounts == {12, 0, 65535, 65548}

BuildFields ==
    [reqCount : ReqCounts, cmd : {0, 1, 8}, key : {0, 2, 6}, i : {0, 3}, b : {0, 3},
     ping : BOOLEAN]

\* 0x123C000C and 0x14C0000C, the words test_apple_reference and
\* test_logged_case decode
ControlWords == {U(4668, 12), U(5312, 12)}

\* addresses at and around 16-byte boundaries, up to 0xFFFFFFFF
PtrAddresses == {U(h, l) : h \in {0, 32768, 65535}, l \in {0, 8, 48, 4660, 65520, 65535}}

\* every Z that fits the low nibble, and two that do not
PtrZs == 0..17

call_make_control ==
    /\ Fresh
    /\ \E f \in ControlFields :
          call' = [op |-> "make_control", cmd |-> f.cmd, status_write |-> f.status_write,
                   key |-> f.key, irq |-> f.irq, branch |-> f.branch, wait |-> f.wait,
                   ret |-> make_control(f.cmd, f.status_write, f.key, f.irq, f.branch,
                                        f.wait)]
    /\ UNCHANGED <<base_address, skip_strategy, blocks, dbc, payload_offset, raised, before>>

call_build_control_word ==
    /\ Fresh
    /\ \E f \in BuildFields :
          call' = [op |-> "build_control_word", reqCount |-> f.reqCount, cmd |-> f.cmd,
                   key |-> f.key, i |-> f.i, b |-> f.b, ping |-> f.ping,
                   ret |-> build_control_word(f.reqCount, f.cmd, f.key, f.i, f.b,
                                              f.ping)]
    /\ UNCHANGED <<base_address, skip_strategy, blocks, dbc, payload_offset, raised, before>>

call_decode_control_word ==
    /\ Fresh
    /\ \E control \in ControlWords :
          call' = [op |-> "decode_control_word", control |-> control,
                   ret |-> decode_control_word(control)]
    /\ UNCHANGED <<base_address, skip_strategy, blocks, dbc, payload_offset, raised, before>>

call_pack_ptr_with_z ==
    /\ Fresh
    /\ \E addr \in PtrAddresses : \E z \in PtrZs :
          call' = [op |-> "pack_ptr_with_z", addr |-> addr, z |-> z,
                   ret |-> pack_ptr_with_z(addr, z)]
    /\ UNCHANGED <<base_address, skip_strategy, blocks, dbc, payload_offset, raised, before>>

\* a builder made with the default arguments
InitDefault ==
    /\ Init
    /\ base_address = U(32768, 0)
    /\ skip_strategy = "NEXT"

NextCodec ==
    \/ call_make_control
    \/ call_build_control_word
    \/ call_decode_control_word
    \/ call_pack_ptr_with_z

SpecCodec == InitDefault /\ [][NextCodec]_vars

(***************************************************************************)
(* C12  Control words are built with cmd at bits 15:12, statusWrite at bit *)
(* 11, key at bits 10:8, interrupt at bits 5:4, branch at bits 3:2 and     *)
(* wait at bits 1:0 of the 16-bit control field (reqCount in the low 16    *)
(* bits of the 32-bit word), bits 7:6 always zero; for all in-range field  *)
(* values decoding the built word by these positions returns the original  *)
(* fields, and 0x123C000C decodes to cmd=1, key=2, interrupt=3, branch=3,  *)
(* reqCount=12.                                                            *)
(***************************************************************************)
\* the fields of a 16-bit control field, read at the positions of the layout
FieldsAt(control) ==
    [cmd |-> (control \div 4096) % 16,
     status_write |-> ((control \div 2048) % 2) = 1,
     key |-> (control \div 256) % 8,
     reserved |-> (control \div 64) % 4,
     irq |-> (control \div 16) % 4,
     branch |-> (control \div 4) % 4,
     wait |-> control % 4]

MakeControlLayout ==
    call.op = "make_control" =>
        LET got == FieldsAt(call.ret)
            word == decode_control_word(U(call.ret, 12))
        IN /\ call.ret \in 0..65535
           /\ got.cmd = call.cmd /\ got.status_write = call.status_write
           /\ got.key = call.key /\ got.irq = call.irq
           /\ got.branch = call.branch /\ got.wait = call.wait
           /\ got.reserved = 0
           /\ word.cmd = call.cmd /\ word.key = call.key /\ word.i = call.irq
           /\ word.b = call.branch /\ word.wait = call.wait /\ word.ping = 0
           /\ word.reqCount = 12

\* build_control_word without ping builds the word make_control builds
BuildControlWordLayout ==
    (call.op = "build_control_word" /\ ~call.ping) =>
        /\ call.ret = U(make_control(call.cmd, FALSE, call.key, call.i, call.b, 0),
                        call.reqCount % 65536)
        /\ call.reqCount <= 65535 =>
              LET word == decode_control_word(call.ret)
              IN /\ word.reqCount = call.reqCount /\ word.cmd = call.cmd
                 /\ word.key = call.key /\ word.i = call.i /\ word.b = call.b

AppleReferenceDecoded ==
    (call.op = "decode_control_word" /\ call.control = U(4668, 12)) =>
        /\ call.ret.cmd = 1 /\ call.ret.key = 2 /\ call.ret.i = 3
        /\ call.ret.b = 3 /\ call.ret.reqCount = 12

C13_PointerPacking ==
    (call.op = "pack_ptr_with_z" /\ call.z \in 0..15) =>
        /\ LowNibble(call.ret) = call.z
        /\ call.ret.hi = call.addr.hi
        /\ call.ret.lo \div 16 = call.addr.lo \div 16

\* 0x80000008 packed with Z = 3 is 0x80000003
C13_Witness ==
    /\ call.op = "pack_ptr_with_z"
    /\ call.addr = U(32768, 8) /\ call.z = 3
    /\ call.ret = U(32768, 3)

(***************************************************************************)
(* validate, and blocks built by hand                                      *)
(*                                                                         *)
(* blocks is a public list: a caller can append a DescriptorBlock it built *)
(* itself from any descriptors, with the address of the dataclass default. *)
(* validate returns validate_errors of the state it is called in and       *)
(* changes nothing.  A finding is the record of its message "Block {i}:    *)
(* {cause}": the index of the block (from 0) and the cause.                *)
(***************************************************************************)
OutputLastImmediate(it_q0, it_q1) ==
    [cls |-> "OutputLastImmediate", size |-> 32, it_q0 |-> it_q0, it_q1 |-> it_q1,
     branch_address |-> NullU, branch_z |-> 0, write_status |-> TRUE,
     irq_on_complete |-> FALSE]

OutputLastSkip ==
    [cls |-> "OutputLastSkip", size |-> 16, branch_address |-> NullU, branch_z |-> 0,
     irq_on_complete |-> FALSE]

\* descriptor lists to build a block from, with q0 and q1 the header
\* quadlets of an empty packet: no descriptor at all; only an OutputMore;
\* each terminal variant alone; an OutputLast followed by an OutputMore; an
\* immediate descriptor whose size field is 16; a StoreValue that is not first
HandBuilt ==
    LET q0 == build_it_header_q0(Speed_S400, 1, channel, 0, 10)
        q1 == build_it_header_q1(8)
    IN {<<>>,
        <<OutputMore(8, payload_base)>>,
        <<OutputLastImmediate(q0, q1)>>,
        <<OutputLastSkip>>,
        <<OutputLast(8, payload_base, FALSE), OutputMore(8, payload_base)>>,
        <<[OutputMoreImmediate(q0, q1) EXCEPT !.size = 16],
          OutputLast(8, payload_base, FALSE)>>,
        <<OutputMoreImmediate(q0, q1), StoreValue(4660, SubU(payload_base, 4)),
          OutputLast(8, payload_base, FALSE)>>}

\* builder.blocks.append(DescriptorBlock(descriptors=descriptors))
append_block(descriptors) ==
    /\ call.n < MaxCalls
    /\ before' = snapshot
    /\ call' = [op |-> "append_block", n |-> call.n + 1]
    /\ blocks' = Append(blocks, DescriptorBlock(descriptors, NullU))
    /\ raised' = "None"
    /\ UNCHANGED <<base_address, skip_strategy, dbc, payload_offset>>

has_store(block) ==
    \E j \in 1..Len(block.descriptors) : block.descriptors[j].cls = "StoreValue"

\* mutant: only the immediate descriptors are counted
more_count_immediate_only(block) ==
    Cardinality({j \in 1..Len(block.descriptors) :
                    block.descriptors[j].cls = "OutputMoreImmediate"})

more_count(block) ==
    Cardinality({j \in 1..Len(block.descriptors) :
                    block.descriptors[j].cls \in {"OutputMore", "OutputMoreImmediate"}})

has_last(block) ==
    \E j \in 1..Len(block.descriptors) :
        block.descriptors[j].cls \in {"OutputLast", "OutputLastSkip"}

\* mutant: descriptors[0] is read whether the block has a StoreValue or not
reads_first_descriptor_always(block) == TRUE

\* block.descriptors[0] is read only when has_store is true (and short-circuits)
reads_first_descriptor(block) == has_store(block)

\* the findings of blocks[i + 1], block i of the program
block_errors(i) ==
    LET block == blocks[i + 1]
    IN (IF has_store(block) /\ block.descriptors[1].cls # "StoreValue"
        THEN <<[block |-> i, cause |-> "STORE_VALUE is not first descriptor"]>>
        ELSE <<>>)
       \o (IF more_count(block) > 8
           THEN <<[block |-> i, cause |-> "Too many OUTPUT_MORE descriptors"]>>
           ELSE <<>>)
       \o (IF ~has_last(block)
           THEN <<[block |-> i, cause |-> "Missing OUTPUT_LAST descriptor"]>>
           ELSE <<>>)
       \o (IF block.address.lo % 16 # 0
           THEN <<[block |-> i, cause |-> "Address not 16-byte aligned"]>>
           ELSE <<>>)

validate_errors == Concat([i \in 1..Len(blocks) |-> block_errors(i - 1)])

\* the exception validate ends with: reading descriptors[0] of an empty list
validate_raised ==
    IF \E i \in 1..Len(blocks) :
          reads_first_descriptor(blocks[i]) /\ blocks[i].descriptors = <<>>
    THEN "IndexError"
    ELSE "None"

validate ==
    /\ call' = [op |-> "validate", n |-> call.n]
    /\ before' = snapshot
    /\ raised' = validate_raised
    /\ UNCHANGED <<base_address, skip_strategy, blocks, dbc, payload_offset>>

\* one fragment; 13 fragments (12 OutputMore); 4 unaligned fragments; a
\* StoreValue and 3 fragments; 14 fragments (Z = 16); a StoreValue and 8
\* fragments (7 OutputMore and the immediate one: Z = 11)
ValidateIntents ==
    {Intent(8, 2, 1, None, FALSE),
     Intent(6, 2, 13, None, TRUE),
     Intent(8, 2, 4, None, FALSE),
     Intent(8, 2, 3, Some(4660), TRUE),
     Intent(6, 2, 14, None, FALSE),
     Intent(7, 2, 8, Some(4660), FALSE)}

InitValidate ==
    /\ Init
    /\ skip_strategy = "NEXT"

NextValidate ==
    \/ \E p \in ValidateIntents :
          add_data_packet(p.samples, p.channels, p.fragments, p.store_val, p.irq)
    \/ add_nodata_packet(8, FALSE)
    \/ \E descriptors \in HandBuilt : append_block(descriptors)
    \/ finalize_ring
    \/ validate

SpecValidate == InitValidate /\ [][NextValidate]_vars

Validated == call.op = "validate"

\* the causes validate reports for blocks[i + 1], block i of the program
CausesOf(errors, i) == {errors[k].cause : k \in {k \in 1..Len(errors) : errors[k].block = i}}

(***************************************************************************)
(* C14  The DBC counter starts at 0 and, after any sequence of             *)
(* add_data_packet and add_nodata_packet calls, is the sum of the samples  *)
(* arguments of all DATA packets added so far modulo 256, within 0..255;   *)
(* add_nodata_packet, finalize_ring and validate leave it unchanged.       *)
(* Stated call by call: a call that adds a DATA packet adds its samples    *)
(* modulo 256, and every other call, a failing add_data_packet included    *)
(* (it adds no packet), leaves the counter as it was.                      *)
(***************************************************************************)
C14_DbcIsSumOfAddedSamples ==
    /\ dbc \in 0..255
    /\ call.op = "__init__" => dbc = 0
    /\ DataAdded => dbc = (before.dbc + call.samples) % 256
    /\ DataFailed => dbc = before.dbc
    /\ call.op \in {"add_nodata_packet", "append_block", "finalize_ring", "validate"} =>
          dbc = before.dbc

\* what the counter is: the sum over all add_data_packet calls made, whether
\* they added a packet or failed
C14_DbcIsSumOfCalledSamples ==
    /\ dbc \in 0..255
    /\ call.op = "__init__" => dbc = 0
    /\ call.op = "add_data_packet" => dbc = (before.dbc + call.samples) % 256
    /\ call.op \in {"add_nodata_packet", "append_block", "finalize_ring", "validate"} =>
          dbc = before.dbc

(***************************************************************************)
(* C15  validate never raises and never modifies the program: for any      *)
(* block list (empty program, blocks with zero descriptors, blocks lacking *)
(* a terminal descriptor, programs not yet finalized) it returns a list of *)
(* zero or more findings, each tagged with the index of the offending      *)
(* block, and construction can continue afterwards.                        *)
(***************************************************************************)
FindingsTagged(errors) ==
    \A k \in 1..Len(errors) :
        /\ errors[k].block \in 0..(N - 1)
        /\ k > 1 => errors[k - 1].block <= errors[k].block

C15_ValidateNeverRaises ==
    Validated =>
        /\ raised = "None"
        /\ snapshot = before
        /\ FindingsTagged(validate_errors)
        /\ call.n < MaxCalls => ENABLED add_nodata_packet(8, FALSE)

\* validate called on a program whose second block has no descriptor at all
C15_Witness ==
    /\ Validated
    /\ N = 2
    /\ blocks[2].descriptors = <<>>
    /\ raised = "None"
    /\ validate_errors # <<>>

(***************************************************************************)
(* C16  validate reports a missing-terminal finding for block i exactly    *)
(* when block i's final descriptor is not of the OutputLast family         *)
(* (OutputLast, OutputLastImmediate, OutputLastSkip): a block of only      *)
(* OutputMore yields exactly one finding, for block 0; a block whose last  *)
(* descriptor is any OutputLast-family variant yields no such finding; a   *)
(* block with an OutputLast followed by further descriptors yields one.    *)
(***************************************************************************)
OutputLastFamily == {"OutputLast", "OutputLastImmediate", "OutputLastSkip"}

EndsInTerminal(block) ==
    /\ block.descriptors # <<>>
    /\ block.descriptors[Len(block.descriptors)].cls \in OutputLastFamily

MissingTerminalExact(errors) ==
    \A i \in 1..N :
        ("Missing OUTPUT_LAST descriptor" \in CausesOf(errors, i - 1))
            <=> ~EndsInTerminal(blocks[i])

C16_MissingTerminalExact == Validated => MissingTerminalExact(validate_errors)

\* what validate checks: an OutputLast or OutputLastSkip anywhere in the block
MissingTerminalAsCoded(errors) ==
    \A i \in 1..N :
        ("Missing OUTPUT_LAST descriptor" \in CausesOf(errors, i - 1))
            <=> ~has_last(blocks[i])

C16_MissingTerminalAsCoded == Validated => MissingTerminalAsCoded(validate_errors)

(***************************************************************************)
(* C17  validate (the method bound on ITProgramBuilder) reports a finding  *)
(* for every block that contains an Immediate-keyed descriptor             *)
(* (OutputMoreImmediate or OutputLastImmediate) whose size field is not    *)
(* 32.                                                                     *)
(***************************************************************************)
ImmediateKeyed == {"OutputMoreImmediate", "OutputLastImmediate"}

HasMissizedImmediate(block) ==
    \E j \in 1..Len(block.descriptors) :
        block.descriptors[j].cls \in ImmediateKeyed /\ block.descriptors[j].size # 32

ImmediateSizeReported(errors) ==
    \A i \in 1..N : HasMissizedImmediate(blocks[i]) => CausesOf(errors, i - 1) # {}

C17_ImmediateSizeReported == Validated => ImmediateSizeReported(validate_errors)

(***************************************************************************)
(* analyze_it_log                                                          *)
(*                                                                         *)
(* The log text is a sequence of lines.  A line is the record of the       *)
(* fields its text holds, each as the text the regular expressions         *)
(* capture: ev the number after eventCode/evt/status (hexadecimal with 0x, *)
(* or decimal), cmd the hexadecimal number after CommandPtr/cmdPtr, dead   *)
(* the word after "dead=", base the hexadecimal number after "base=", desc *)
(* the numbers of a descriptor dump "IT: @idx ctl=.. dat=.. br=..".  A     *)
(* number is the sequence of its digits, None when the field is absent.    *)
(* The report is the list of the lines of out, each a tag and a number.    *)
(***************************************************************************)
RECURSIVE DigitsValue(_, _)
DigitsValue(digits, radix) ==
    IF digits = <<>> THEN 0
    ELSE DigitsValue(SubSeq(digits, 1, Len(digits) - 1), radix) * radix
         + digits[Len(digits)]

\* int(text, 16) of up to 8 hexadecimal digits, as limbs
int16(digits) ==
    IF Len(digits) <= 4 THEN U(0, DigitsValue(digits, 16))
    ELSE U(DigitsValue(SubSeq(digits, 1, Len(digits) - 4), 16),
           DigitsValue(SubSeq(digits, Len(digits) - 3, Len(digits)), 16))

Line(ev, cmd, dead, base, desc) ==
    [ev |-> ev, cmd |-> cmd, dead |-> dead, base |-> base, desc |-> desc]

HexText(digits) == Some([hex |-> TRUE, digits |-> digits])

DecText(digits) == Some([hex |-> FALSE, digits |-> digits])

Dump(idx, ctl, dat, br) == Some([idx |-> idx, ctl |-> ctl, dat |-> dat, br |-> br])

\* "eventCode=0x0A, commandPtr=0x80000030, dead=true"
LineTimeout == Line(HexText(<<0, 10>>), Some(<<8, 0, 0, 0, 0, 0, 3, 0>>), "true", None, None)

\* "evt=0x02 cmdPtr=0x80000010"
LineAckComplete == Line(HexText(<<0, 2>>), Some(<<8, 0, 0, 0, 0, 0, 1, 0>>), "", None, None)

\* "cmdPtr=0x80000023 dead=1"
LineDead == Line(None, Some(<<8, 0, 0, 0, 0, 0, 2, 3>>), "1", None, None)

\* "evt=0x00 cmdPtr=0x80000030"
LineNoStatus == Line(HexText(<<0, 0>>), Some(<<8, 0, 0, 0, 0, 0, 3, 0>>), "", None, None)

\* "status=17" (ack_pending written in decimal)
LineAckPending == Line(DecText(<<1, 7>>), None, "", None, None)

\* "status=11 cmdPtr=0x00000000"
LineNullPtr == Line(DecText(<<1, 1>>), Some(<<0, 0, 0, 0, 0, 0, 0, 0>>), "", None, None)

\* "base=0x80000000", "base=0x80000008", "base=0x80000040", "base=0x0"
LineBase == Line(None, None, "", Some(<<8, 0, 0, 0, 0, 0, 0, 0>>), None)

LineBaseUnaligned == Line(None, None, "", Some(<<8, 0, 0, 0, 0, 0, 0, 8>>), None)

LineBaseAbove == Line(None, None, "", Some(<<8, 0, 0, 0, 0, 0, 4, 0>>), None)

LineBaseZero == Line(None, None, "", Some(<<0>>), None)

\* "IT: @3 ctl=0xDEDEDEDE dat=0xDEDEDEDE br=0xDEDEDEDE"
LineDumpPattern ==
    Line(None, None, "", None,
         Dump(<<3>>, <<13, 14, 13, 14, 13, 14, 13, 14>>, <<13, 14, 13, 14, 13, 14, 13, 14>>,
              <<13, 14, 13, 14, 13, 14, 13, 14>>))

\* "IT: @3 ctl=0xDEDEDEDE dat=0x00000000 br=0x00000003"
LineDumpPatternNullBranch ==
    Line(None, None, "", None,
         Dump(<<3>>, <<13, 14, 13, 14, 13, 14, 13, 14>>, <<0, 0, 0, 0, 0, 0, 0, 0>>,
              <<0, 0, 0, 0, 0, 0, 0, 3>>))

\* "IT: @2 ctl=0x02000008 dat=0x00000000 br=0x80000033": what
\* OutputMoreImmediate.to_bytes writes, key = Immediate
LineDumpImmediate ==
    Line(None, None, "", None,
         Dump(<<2>>, <<0, 2, 0, 0, 0, 0, 0, 8>>, <<0, 0, 0, 0, 0, 0, 0, 0>>,
              <<8, 0, 0, 0, 0, 0, 3, 3>>))

\* "IT: @2 ctl=0x180C0208 dat=0x80010000 br=0x80000033": an OUTPUT_LAST of
\* 0x208 bytes, key = Standard
LineDumpLast ==
    Line(None, None, "", None,
         Dump(<<2>>, <<1, 8, 0, 12, 0, 2, 0, 8>>, <<8, 0, 0, 1, 0, 0, 0, 0>>,
              <<8, 0, 0, 0, 0, 0, 3, 3>>))

\* "IT: @3 ctl=0x00000008 dat=0x80010000 br=0x00000003": a standard
\* OUTPUT_MORE whose branch word has Z = 3 and a null address
LineDumpMoreNullBranch ==
    Line(None, None, "", None,
         Dump(<<3>>, <<0, 0, 0, 0, 0, 0, 0, 8>>, <<8, 0, 0, 1, 0, 0, 0, 0>>,
              <<0, 0, 0, 0, 0, 0, 0, 3>>))

\* "IT: @3 ctl=0x00000008 dat=0x80010000 br=0x00000000": what
\* OutputMore.to_bytes writes
LineDumpMore ==
    Line(None, None, "", None,
         Dump(<<3>>, <<0, 0, 0, 0, 0, 0, 0, 8>>, <<8, 0, 0, 1, 0, 0, 0, 0>>,
              <<0, 0, 0, 0, 0, 0, 0, 0>>))

\* "IT: @3 ctl=0x180C0208 dat=0x80010000 br=0x00000000": an OUTPUT_LAST
\* that was never linked
LineDumpLastStop ==
    Line(None, None, "", None,
         Dump(<<3>>, <<1, 8, 0, 12, 0, 2, 0, 8>>, <<8, 0, 0, 1, 0, 0, 0, 0>>,
              <<0, 0, 0, 0, 0, 0, 0, 0>>))

\* "IT: @3 ctl=0x02000008 dat=0x00000000 br=0x00000002": an
\* OUTPUT_MORE-Immediate whose skip word has Z = 2 and a null address
LineDumpImmediateNullSkip ==
    Line(None, None, "", None,
         Dump(<<3>>, <<0, 2, 0, 0, 0, 0, 0, 8>>, <<0, 0, 0, 0, 0, 0, 0, 0>>,
              <<0, 0, 0, 0, 0, 0, 0, 2>>))

LogLines ==
    {LineTimeout, LineAckComplete, LineDead, LineNoStatus, LineAckPending, LineNullPtr,
     LineBase, LineBaseUnaligned, LineBaseAbove, LineBaseZero,
     LineDumpPattern, LineDumpPatternNullBranch, LineDumpImmediate, LineDumpLast,
     LineDumpMoreNullBranch, LineDumpMore, LineDumpLastStop, LineDumpImmediateNullSkip}

\* number of lines of a log text
MaxLines == 3

LogTexts == UNION {[1..n -> LogLines] : n \in 0..MaxLines}

\* what the loop over the lines extracts from one line
ev_code_of(line) ==
    IF line.ev = None THEN None
    ELSE Some(DigitsValue(line.ev[1].digits, IF line.ev[1].hex THEN 16 ELSE 10))

cmd_ptr_of(line) == IF line.cmd = None THEN None ELSE Some(int16(line.cmd[1]))

\* pat_dead matches "dead=1" only
is_dead_of(line) == line.dead = "1"

is_event_line(line) ==
    ev_code_of(line) # None \/ cmd_ptr_of(line) # None \/ is_dead_of(line)

event_of(line) ==
    [code |-> ev_code_of(line), cmd_ptr |-> cmd_ptr_of(line), dead |-> is_dead_of(line),
     line |-> line]

parsed_events(log_text) ==
    LET lines == SelectSeq(log_text, is_event_line)
    IN [k \in 1..Len(lines) |-> event_of(lines[k])]

\* the first base address of the text, None when there is none
parsed_base_address(log_text) ==
    LET with == {k \in 1..Len(log_text) : log_text[k].base # None}
    IN IF with = {} THEN None
       ELSE LET first == CHOOSE k \in with : \A m \in with : k <= m
            IN Some(int16(log_text[first].base[1]))

\* descriptors.get(idx): the last dump of that index, None when there is none
parsed_descriptor(log_text, idx) ==
    LET with == {k \in 1..Len(log_text) :
                    /\ log_text[k].desc # None
                    /\ DigitsValue(log_text[k].desc[1].idx, 10) = idx}
    IN IF with = {} THEN None
       ELSE LET last == CHOOSE k \in with : \A m \in with : m <= k
                d == log_text[last].desc[1]
            IN Some([ctl |-> int16(d.ctl), dat |-> int16(d.dat), br |-> int16(d.br)])

\* mutant: ack_pending (0x11) is not taken for benign
is_error_code_pending_is_error(code) == code # None /\ code[1] \notin {0, 2}

is_error_code(code) == code # None /\ code[1] \notin {0, 2, 17}

\* the first event that is dead or has an error code, None when there is none
critical_ev_of(events) ==
    LET crit == {k \in 1..Len(events) :
                    events[k].dead \/ is_error_code(events[k].code)}
    IN IF crit = {} THEN None
       ELSE Some(events[CHOOSE k \in crit : \A m \in crit : k <= m])

\* Python's truth value of an Optional[int]: neither None nor 0
truthy(x) == x # None /\ x[1] # NullU

Entry(tag, val) == [tag |-> tag, val |-> val]

desc_name_of(desc_cmd, desc_key) ==
    CASE desc_cmd = 0 /\ desc_key = 0 -> "OUTPUT_MORE"
      [] desc_cmd = 0 /\ desc_key = 2 -> "OUTPUT_MORE-Immediate"
      [] desc_cmd = 1 /\ desc_key = 0 -> "OUTPUT_LAST"
      [] desc_cmd = 1 /\ desc_key = 2 -> "OUTPUT_LAST-Immediate"
      [] desc_cmd = 8 /\ desc_key = 6 -> "STORE_VALUE"
      [] OTHER -> "UNKNOWN"

\* the lines reported for the descriptor dumped at the resolved index
descriptor_report(desc) ==
    LET d_val == desc.ctl
        d_br == desc.br
        req_count == d_val.lo
        control == d_val.hi
        br_z == LowNibble(d_br)
        br_addr == AddrPart(d_br)
        desc_cmd == (control \div 4096) % 16
        desc_key == (control \div 256) % 8
    IN <<Entry("Descriptor Content", desc),
         Entry("Type", [name |-> desc_name_of(desc_cmd, desc_key), req_count |-> req_count])>>
       \o (IF d_val = U(57054, 57054)
           THEN <<Entry("FAULT: Uninitialized Memory", 0)>>
           ELSE IF br_z = 0
           THEN (IF desc_cmd = 1
                 THEN <<Entry("Branch Z=0. Context stopped naturally", 0)>>
                 ELSE <<>>)
           ELSE IF br_addr = NullU
           THEN (IF desc_cmd = 0 /\ desc_key = 0
                 THEN <<Entry("Standard OUTPUT_MORE (branch ignored)", 0)>>
                 ELSE <<Entry("FAULT: Null Branch Address with Z!=0", 0)>>
                      \o (IF desc_cmd = 0 /\ desc_key = 2
                          THEN <<Entry("(skipAddress for OUTPUT_MORE-Immediate)", 0)>>
                          ELSE <<>>))
           ELSE <<Entry("Branch address looks valid.", 0)>>)

\* the key of the descriptor dumped before the resolved one, as the code
\* reads it: (p_ctl >> 8) & 0x7 of the whole 32-bit word
p_key_of(p_ctl) == (p_ctl.lo \div 256) % 8

\* the lines after "Deep Diagnosis:"
deep_diagnosis(log_text, cmd_ptr, base) ==
    IF truthy(cmd_ptr) /\ truthy(base)
    THEN LET cmd_ptr_addr == AddrPart(cmd_ptr[1])
             offset == DiffU(cmd_ptr_addr, base[1])
         IN IF offset < 0
            THEN <<Entry("CmdPtr is before Base Address", 0)>>
            ELSE IF offset % 16 # 0
            THEN <<Entry("CmdPtr illegal alignment", offset)>>
            ELSE LET idx == offset \div 16
                     desc == parsed_descriptor(log_text, idx)
                     prev_desc == parsed_descriptor(log_text, idx - 1)
                 IN <<Entry("Failure at Descriptor Index", idx)>>
                    \o (IF prev_desc # None /\ p_key_of(prev_desc[1].ctl) = 2
                        THEN <<Entry("Note: second half of descriptor", idx - 1)>>
                        ELSE <<>>)
                    \o (IF desc # None
                        THEN descriptor_report(desc[1])
                        ELSE <<Entry("Descriptor dump not found for this index.", 0)>>)
    ELSE <<Entry("Cannot perform deep diagnosis", 0)>>

\* mutant: the report for a text without events is not returned early
returns_early_never(events) == FALSE

\* "if not events: return [...]"
returns_early(events) == events = <<>>

\* the exception analyze_it_log ends with, "None" when it returns: the one
\* subscript it evaluates is events[-1], for the fallback event
analyze_it_log_raised(log_text) ==
    LET events == parsed_events(log_text)
    IN IF ~returns_early(events) /\ critical_ev_of(events) = None /\ events = <<>>
       THEN "IndexError"
       ELSE "None"

analyze_it_log(log_text) ==
    LET events == parsed_events(log_text)
        base == parsed_base_address(log_text)
        critical_ev == critical_ev_of(events)
        target_ev == IF critical_ev # None THEN critical_ev[1] ELSE events[Len(events)]
        code == target_ev.code
        dead_ctx == target_ev.dead
        cmd_ptr == target_ev.cmd_ptr
    IN IF returns_early(events)
       THEN <<Entry("No relevant IT DMA events found.", 0)>>
       ELSE <<Entry("Analyzing Log", Len(events)),
              Entry("----", 0),
              Entry("Critical Event Found", critical_ev # None),
              Entry("Log Line", target_ev.line)>>
            \o (IF code # None
                THEN <<Entry("Event Code", code[1])>>
                     \o (IF code[1] = 10 THEN <<Entry("Diagnosis: Timeout", 0)>>
                         ELSE IF code[1] = 33
                         THEN <<Entry("Diagnosis: Skip Processing Overflow", 0)>>
                         ELSE <<>>)
                ELSE <<>>)
            \o (IF truthy(cmd_ptr) THEN <<Entry("CommandPtr", cmd_ptr[1])>> ELSE <<>>)
            \o (IF dead_ctx THEN <<Entry("Context Status: DEAD", 0)>> ELSE <<>>)
            \o <<Entry("----", 0), Entry("Deep Diagnosis:", 0)>>
            \o deep_diagnosis(log_text, cmd_ptr, base)

call_analyze_it_log ==
    /\ Fresh
    /\ \E log_text \in LogTexts :
          /\ raised' = analyze_it_log_raised(log_text)
          /\ call' = [op |-> "analyze_it_log", log_text |-> log_text,
                      ret |-> IF analyze_it_log_raised(log_text) = "None"
                              THEN analyze_it_log(log_text)
                              ELSE <<>>]
    /\ UNCHANGED <<base_address, skip_strategy, blocks, dbc, payload_offset, before>>

NextDiagnoser == call_analyze_it_log

SpecDiagnoser == InitDefault /\ [][NextDiagnoser]_vars

(***************************************************************************)
(* Reading a report                                                        *)
(***************************************************************************)
Analyzed == call.op = "analyze_it_log"

Tags(out) == {out[k].tag : k \in 1..Len(out)}

\* the numbers reported under a tag
Vals(out, tag) == {out[k].val : k \in {k \in 1..Len(out) : out[k].tag = tag}}

\* the lines of the text that are events: they state an event code, a
\* commandPtr or dead=1
EventLines(log_text) ==
    {k \in 1..Len(log_text) :
        \/ log_text[k].ev # None
        \/ log_text[k].cmd # None
        \/ log_text[k].dead = "1"}

BenignCodes == {0, 2, 17}

\* the event of line k is marked dead or states a code outside the benign set
Qualifies(log_text, k) ==
    \/ log_text[k].dead = "1"
    \/ /\ log_text[k].ev # None
       /\ ev_code_of(log_text[k])[1] \notin BenignCodes

Earliest(S) == CHOOSE k \in S : \A m \in S : k <= m

Latest(S) == CHOOSE k \in S : \A m \in S : m <= k

\* the line of the event to diagnose: the earliest qualifying one, else the
\* last event
SelectedLine(log_text) ==
    LET qualifying == {k \in EventLines(log_text) : Qualifies(log_text, k)}
    IN IF qualifying # {}
       THEN log_text[Earliest(qualifying)]
       ELSE log_text[Latest(EventLines(log_text))]

(***************************************************************************)
(* C18  The diagnoser selects as the event to diagnose the earliest event  *)
(* in trace-line order that is marked dead or whose event code is outside  *)
(* the benign set {0x00, 0x02, 0x11}; only if no event qualifies does it   *)
(* fall back to the last event of the trace.  Events after the first       *)
(* qualifying one never change the selection.                              *)
(***************************************************************************)
SelectsEarliestCritical(log_text, out) ==
    EventLines(log_text) # {} =>
        LET selected == SelectedLine(log_text)
        IN /\ Vals(out, "Log Line") = {selected}
           /\ Vals(out, "Critical Event Found")
                 = {\E k \in EventLines(log_text) : Qualifies(log_text, k)}
           /\ Vals(out, "Event Code")
                 = (IF selected.ev = None THEN {} ELSE {ev_code_of(selected)[1]})
           /\ ("Context Status: DEAD" \in Tags(out)) <=> (selected.dead = "1")

C18_SelectsEarliestCritical == Analyzed => SelectsEarliestCritical(call.log_text, call.ret)

\* a benign event, then a dead one, then a timeout: the dead one is diagnosed
C18_Witness ==
    /\ Analyzed
    /\ call.log_text = <<LineAckPending, LineDead, LineTimeout>>
    /\ Vals(call.ret, "Log Line") = {LineDead}

(***************************************************************************)
(* C19  When the selected event has commandPtr P and the trace gives base  *)
(* address B, the diagnoser computes offset = (P & ~0xF) - B; if the       *)
(* offset is negative or not a multiple of 16 it reports that and resolves *)
(* no descriptor index; otherwise the resolved index is exactly offset/16. *)
(* For P=0x80000030, B=0x80000000 and a descriptor at that index filled    *)
(* with the 0xDE pattern, it reports index 3 and the uninitialized-        *)
(* descriptor fault, which takes precedence over every branch-pointer      *)
(* classification.                                                         *)
(***************************************************************************)
\* a < b for two 32-bit numbers
LessU(a, b) == a.hi < b.hi \/ (a.hi = b.hi /\ a.lo < b.lo)

\* a - b for a >= b, as limbs
MinusU(a, b) ==
    IF a.lo >= b.lo THEN U(a.hi - b.hi, a.lo - b.lo)
    ELSE U(a.hi - b.hi - 1, a.lo + 65536 - b.lo)

BranchClassifications ==
    {"Branch Z=0. Context stopped naturally", "Standard OUTPUT_MORE (branch ignored)",
     "FAULT: Null Branch Address with Z!=0", "(skipAddress for OUTPUT_MORE-Immediate)",
     "Branch address looks valid."}

\* what is to be reported for commandPtr P and base address B
OffsetResolved(log_text, out, P, B) ==
    IF LessU(AddrPart(P), B)
    THEN /\ "CmdPtr is before Base Address" \in Tags(out)
         /\ "Failure at Descriptor Index" \notin Tags(out)
    ELSE LET offset == MinusU(AddrPart(P), B)
         IN IF offset.lo % 16 # 0
            THEN /\ "CmdPtr illegal alignment" \in Tags(out)
                 /\ "Failure at Descriptor Index" \notin Tags(out)
            ELSE /\ Vals(out, "Failure at Descriptor Index")
                       = {(offset.hi * 4096) + (offset.lo \div 16)}
                 /\ Tags(out) \cap {"CmdPtr is before Base Address",
                                    "CmdPtr illegal alignment"} = {}

PatternExample(log_text, out, P, B) ==
    (/\ P = U(32768, 48)
     /\ B = U(32768, 0)
     /\ parsed_descriptor(log_text, 3) # None
     /\ parsed_descriptor(log_text, 3)[1].ctl = U(57054, 57054)) =>
        /\ Vals(out, "Failure at Descriptor Index") = {3}
        /\ "FAULT: Uninitialized Memory" \in Tags(out)
        /\ Tags(out) \cap BranchClassifications = {}

OffsetResolution(log_text, out) ==
    (/\ EventLines(log_text) # {}
     /\ SelectedLine(log_text).cmd # None
     /\ parsed_base_address(log_text) # None) =>
        LET P == int16(SelectedLine(log_text).cmd[1])
            B == parsed_base_address(log_text)[1]
        IN /\ OffsetResolved(log_text, out, P, B)
           /\ PatternExample(log_text, out, P, B)

C19_OffsetResolution == Analyzed => OffsetResolution(call.log_text, call.ret)

\* the same for a commandPtr and a base address that are not 0
OffsetResolutionNonzero(log_text, out) ==
    (/\ EventLines(log_text) # {}
     /\ SelectedLine(log_text).cmd # None
     /\ int16(SelectedLine(log_text).cmd[1]) # NullU
     /\ parsed_base_address(log_text) # None
     /\ parsed_base_address(log_text)[1] # NullU) =>
        OffsetResolution(log_text, out)

C19_OffsetResolutionNonzero == Analyzed => OffsetResolutionNonzero(call.log_text, call.ret)

(***************************************************************************)
(* C20  The diagnoser flags the resolved index as the second half of the   *)
(* preceding descriptor exactly when the descriptor recorded at index-1 is *)
(* Immediate-keyed, i.e. when the key field of its control word (bits 10:8 *)
(* of the control half-word in the upper 16 bits of the recorded 32-bit    *)
(* word, the layout used for the current descriptor) equals 2.             *)
(***************************************************************************)
\* the key of a recorded 32-bit control word
KeyOfWord(ctl) == (ctl.hi \div 256) % 8

SecondHalfFlagged(log_text, out, key(_)) ==
    \A idx \in Vals(out, "Failure at Descriptor Index") :
        ("Note: second half of descriptor" \in Tags(out))
            <=> /\ parsed_descriptor(log_text, idx - 1) # None
                /\ key(parsed_descriptor(log_text, idx - 1)[1].ctl) = 2

C20_SecondHalfIffImmediate ==
    Analyzed => SecondHalfFlagged(call.log_text, call.ret, KeyOfWord)

\* what the code flags on: bits 10:8 of the whole word, which are bits of
\* the reqCount
C20_SecondHalfAsCoded ==
    Analyzed => SecondHalfFlagged(call.log_text, call.ret, p_key_of)

(***************************************************************************)
(* C21  For a resolved descriptor whose control word is not the 0xDE       *)
(* pattern, the diagnoser reports the null-branch fault whenever the       *)
(* recorded branch word has non-zero Z (low 4 bits) and a null address     *)
(* part, for every descriptor type; it reports a deliberate stop only for  *)
(* an OUTPUT_LAST whose branch Z is 0; and every report carries at most    *)
(* one of these classifications.                                           *)
(***************************************************************************)
\* the cmd field of a recorded 32-bit control word
CmdOfWord(ctl) == (ctl.hi \div 4096) % 16

Classifications ==
    {"FAULT: Uninitialized Memory", "Branch Z=0. Context stopped naturally",
     "Standard OUTPUT_MORE (branch ignored)", "FAULT: Null Branch Address with Z!=0",
     "Branch address looks valid."}

\* the number of classifications a report carries
ClassificationCount(out) ==
    Cardinality({k \in 1..Len(out) : out[k].tag \in Classifications})

\* exempt(ctl): the descriptor types for which a null address with Z # 0 is
\* not reported as a fault
BranchClassified(log_text, out, exempt(_)) ==
    \A idx \in Vals(out, "Failure at Descriptor Index") :
        LET desc == parsed_descriptor(log_text, idx)
        IN (desc # None /\ desc[1].ctl # U(57054, 57054)) =>
              /\ (/\ LowNibble(desc[1].br) # 0
                  /\ AddrPart(desc[1].br) = NullU
                  /\ ~exempt(desc[1].ctl))
                    => "FAULT: Null Branch Address with Z!=0" \in Tags(out)
              /\ "Branch Z=0. Context stopped naturally" \in Tags(out)
                    => (CmdOfWord(desc[1].ctl) = 1 /\ LowNibble(desc[1].br) = 0)
              /\ ClassificationCount(out) <= 1

NoExemption(ctl) == FALSE

C21_BranchClassification ==
    Analyzed => BranchClassified(call.log_text, call.ret, NoExemption)

\* what the code does: a standard OUTPUT_MORE (cmd 0, key 0) with a null
\* address and Z # 0 is reported as "branch ignored", not as a fault
StandardOutputMore(ctl) == CmdOfWord(ctl) = 0 /\ KeyOfWord(ctl) = 0

C21_BranchClassificationAsCoded ==
    Analyzed =>
        /\ BranchClassified(call.log_text, call.ret, StandardOutputMore)
        /\ \A idx \in Vals(call.ret, "Failure at Descriptor Index") :
              LET desc == parsed_descriptor(call.log_text, idx)
              IN (/\ desc # None
                  /\ StandardOutputMore(desc[1].ctl)
                  /\ LowNibble(desc[1].br) # 0
                  /\ AddrPart(desc[1].br) = NullU)
                    => /\ "Standard OUTPUT_MORE (branch ignored)" \in Tags(call.ret)
                       /\ "FAULT: Null Branch Address with Z!=0" \notin Tags(call.ret)

(***************************************************************************)
(* C22  The diagnoser never fails: for every trace text (empty text, no    *)
(* events, events without commandPtr, no base address, no descriptor dump  *)
(* for the resolved index) analyze_it_log returns a non-empty report       *)
(* without raising, and whenever the commandPtr or the base address is     *)
(* missing it reports that deep diagnosis cannot be performed instead of   *)
(* resolving an index.                                                     *)
(***************************************************************************)
\* what a report says about descriptors
DeepFindings ==
    Classifications \cup
    {"CmdPtr is before Base Address", "CmdPtr illegal alignment",
     "Failure at Descriptor Index", "Note: second half of descriptor",
     "Descriptor Content", "Type", "Descriptor dump not found for this index."}

\* the selected event states no commandPtr, or the text states no base address
InputMissing(log_text) ==
    \/ SelectedLine(log_text).cmd = None
    \/ \A k \in 1..Len(log_text) : log_text[k].base = None

NeverFails(log_text, out) ==
    /\ raised = "None"
    /\ out # <<>>
    /\ EventLines(log_text) = {} =>
          /\ Tags(out) = {"No relevant IT DMA events found."}
    /\ (EventLines(log_text) # {} /\ InputMissing(log_text)) =>
          /\ "Cannot perform deep diagnosis" \in Tags(out)
          /\ Tags(out) \cap DeepFindings = {}
    /\ "Failure at Descriptor Index" \in Tags(out) =>
          /\ EventLines(log_text) # {}
          /\ ~InputMissing(log_text)

C22_NeverFails == Analyzed => NeverFails(call.log_text, call.ret)

\* a timeout at 0x80000030 and a dump of descriptor 3, but no base address
C22_Witness ==
    /\ Analyzed
    /\ call.log_text = <<LineTimeout, LineDumpPattern>>
    /\ raised = "None"
    /\ "Cannot perform deep diagnosis" \in Tags(call.ret)

\* texts without any event, the empty one among them, are analyzed as well
C22_WitnessNoEvents ==
    /\ Analyzed
    /\ call.log_text = <<>>
    /\ call.ret = <<Entry("No relevant IT DMA events found.", 0)>>

(***************************************************************************)
(* C30  The diagnoser treats a commandPtr or base address as known         *)
(* whenever the trace states it, whatever its value: a trace giving        *)
(* base=0x0 (or a commandPtr of 0x0) together with the other value still   *)
(* gets an offset computed and an index resolved (or a misalignment        *)
(* reported), rather than the missing-input report.                        *)
(***************************************************************************)
OffsetFindings ==
    {"CmdPtr is before Base Address", "CmdPtr illegal alignment",
     "Failure at Descriptor Index"}

StatedIsKnown(log_text, out) ==
    (EventLines(log_text) # {} /\ ~InputMissing(log_text)) =>
        /\ "Cannot perform deep diagnosis" \notin Tags(out)
        /\ Tags(out) \cap OffsetFindings # {}

C30_StatedIsKnown == Analyzed => StatedIsKnown(call.log_text, call.ret)

\* what the code does: a stated value of 0 counts as missing
StatedZeroIsMissing(log_text, out) ==
    (EventLines(log_text) # {} /\ ~InputMissing(log_text)) =>
        LET P == int16(SelectedLine(log_text).cmd[1])
            B == parsed_base_address(log_text)[1]
        IN IF P = NullU \/ B = NullU
           THEN /\ "Cannot perform deep diagnosis" \in Tags(out)
                /\ Tags(out) \cap DeepFindings = {}
           ELSE StatedIsKnown(log_text, out)

C30_StatedZeroIsMissing == Analyzed => StatedZeroIsMissing(call.log_text, call.ret)

(***************************************************************************)
(* C23  The skip strategy is applied uniformly to skip pointers: after     *)
(* finalize_ring, in every block i the skip pointer of each StoreValue and *)
(* each OutputMoreImmediate is pack(blocks[(i+1) mod N].address, its       *)
(* zValue) under NEXT, pack(blocks[i].address, blocks[i].zValue) under     *)
(* SELF, and (sentinel address, Z=1) under SENTINEL, while standard        *)
(* OutputMore descriptors keep a zero branch word.                         *)
(***************************************************************************)
\* the skip pointer of block i under the strategy of the program
SkipTarget(i) ==
    CASE skip_strategy = "NEXT" ->
           pack_ptr_with_z(blocks[Succ(i)].address, Units(blocks, Succ(i)))
      [] skip_strategy = "SELF" ->
           pack_ptr_with_z(blocks[i].address, Units(blocks, i))
      [] skip_strategy = "SENTINEL" ->
           pack_ptr_with_z(AddU(base_address, 65280), 1)

\* the pointer word in the bytes descriptor d is serialized to
SerializedPointer(d) ==
    WordAt(to_bytes(d), IF d.cls \in ImmediateKeyed THEN 4 ELSE 8)

SkipsFollowStrategy ==
    \A i \in 1..N :
        LET target == SkipTarget(i)
        IN \A j \in 1..Len(blocks[i].descriptors) :
              LET d == blocks[i].descriptors[j]
              IN /\ d.cls \in {"StoreValue", "OutputMoreImmediate"} =>
                       SerializedPointer(d) = target
                 /\ d.cls = "OutputMore" => SerializedPointer(d) = NullU

C23_SkipsFollowStrategy == Finalized => SkipsFollowStrategy

\* under SELF, in a ring of two blocks, a StoreValue, an OutputMoreImmediate
\* and an OutputMore have been serialized, and the skip pointers of the
\* block differ from the pointer to the next block
C23_Witness ==
    /\ Finalized
    /\ skip_strategy = "SELF"
    /\ N = 2
    /\ \E i \in 1..N :
          /\ {blocks[i].descriptors[j].cls : j \in 1..Terminal(i)}
                = {"StoreValue", "OutputMoreImmediate", "OutputMore", "OutputLast"}
          /\ SerializedPointer(blocks[i].descriptors[1]) = SkipTarget(i)
          /\ SerializedPointer(blocks[i].descriptors[2]) = SkipTarget(i)
          /\ SkipTarget(i) # SerializedPointer(blocks[i].descriptors[Terminal(i)])

(***************************************************************************)
(* C24  Every block produced by add_data_packet is, in order: a StoreValue *)
(* iff a store value was given, then exactly one OutputMoreImmediate, then *)
(* exactly fragments-1 OutputMore, then exactly one terminal OutputLast,   *)
(* so its zValue is fragments + 2 (+1 with StoreValue; 3 for one fragment  *)
(* without StoreValue); every block produced by add_nodata_packet is       *)
(* exactly OutputMoreImmediate followed by OutputLast with reqCount 8      *)
(* (zValue 3).                                                             *)
(***************************************************************************)
\* the classes of the descriptors of a block, in order
Classes(block) == [j \in 1..Len(block.descriptors) |-> block.descriptors[j].cls]

DataClasses(fragments, with_store) ==
    (IF with_store THEN <<"StoreValue">> ELSE <<>>)
    \o <<"OutputMoreImmediate">>
    \o [k \in 1..(fragments - 1) |-> "OutputMore"]
    \o <<"OutputLast">>

NoDataAdded == call.op = "add_nodata_packet" /\ raised = "None"

BlockStructure ==
    /\ DataAdded =>
          /\ blocks = Append(before.blocks, blocks[N])
          /\ Classes(blocks[N]) = DataClasses(call.fragments, call.store_val # None)
          /\ z_value(blocks[N])
                = call.fragments + 2 + (IF call.store_val # None THEN 1 ELSE 0)
          /\ (call.fragments = 1 /\ call.store_val = None) => z_value(blocks[N]) = 3
    /\ NoDataAdded =>
          /\ blocks = Append(before.blocks, blocks[N])
          /\ Classes(blocks[N]) = <<"OutputMoreImmediate", "OutputLast">>
          /\ blocks[N].descriptors[2].req_count = 8
          /\ z_value(blocks[N]) = 3

C24_BlockStructure == BlockStructure

\* a packet of three fragments with a store value: five descriptors, Z = 6
C24_Witness ==
    /\ DataAdded
    /\ call.fragments = 3
    /\ call.store_val # None
    /\ Classes(blocks[N])
          = <<"StoreValue", "OutputMoreImmediate", "OutputMore", "OutputMore", "OutputLast">>
    /\ z_value(blocks[N]) = 6

(***************************************************************************)
(* C27  A failing add_data_packet call (unaligned fragment size, or        *)
(* fragments = 0) leaves the whole builder state unchanged, not only the   *)
(* block list: the DBC counter and the payload-allocation cursor have the  *)
(* values they had before the call, so the next successful packet gets the *)
(* same DBC and payload address as if the failed call had never been made. *)
(***************************************************************************)
C27_FailedAddKeepsState ==
    DataFailed =>
        /\ blocks = before.blocks
        /\ dbc = before.dbc
        /\ payload_offset = before.payload_offset

\* what the code does: the counter and the cursor are those of a call that
\* succeeded
C27_FailedAddAdvances ==
    DataFailed =>
        /\ blocks = before.blocks
        /\ dbc = (before.dbc + call.samples) % 256
        /\ payload_offset
              = before.payload_offset
                + 16 * ((payload_len_of(call.samples, call.channels) + 15) \div 16)

(***************************************************************************)
(* C29  Payload buffers never overlap: after any sequence of               *)
(* add_data_packet and add_nodata_packet calls, each packet's payload      *)
(* address is payload_base plus a multiple of 16, the payload cursor only  *)
(* grows (by the payload length rounded up to 16), and the byte ranges     *)
(* [address, address + payloadLen) of any two packets are disjoint, with   *)
(* all fragments of one packet lying inside that packet's range.           *)
(***************************************************************************)
\* the positions of the fragments of block i, in order
Fragments(i) == {j \in 1..Len(blocks[i].descriptors) : IsFragment(blocks[i].descriptors[j])}

\* where the payload of packet i begins and ends, as offsets from payload_base
PayloadStart(i) ==
    DiffU(blocks[i].descriptors[Earliest(Fragments(i))].data_address, payload_base)

PayloadLen(i) ==
    SumSeq([j \in 1..Len(blocks[i].descriptors) |->
               IF IsFragment(blocks[i].descriptors[j])
               THEN blocks[i].descriptors[j].req_count ELSE 0])

PayloadEnd(i) == PayloadStart(i) + PayloadLen(i)

RoundUp16(n) == 16 * ((n + 15) \div 16)

\* the payload length of the call just made
CalledPayloadLen ==
    IF call.op = "add_data_packet" THEN 8 + (4 * call.samples * call.channels) ELSE 8

\* the fragments of packet i follow one another from start up to end
FragmentsFill(i, start, end) ==
    LET ds == blocks[i].descriptors
        first == Earliest(Fragments(i))
    IN /\ \A j \in Fragments(i) :
             DiffU(ds[j].data_address, payload_base)
               = (IF j = first THEN start
                  ELSE DiffU(ds[j - 1].data_address, payload_base) + ds[j - 1].req_count)
       /\ \A j \in Fragments(i) : ds[j].req_count > 0
       /\ Fragments(i) = first..Len(ds)
       /\ DiffU(ds[Len(ds)].data_address, payload_base) + ds[Len(ds)].req_count = end

PayloadsDisjoint ==
    /\ \A i \in 1..N :
          LET start == PayloadStart(i)
              end == PayloadEnd(i)
          IN /\ start >= 0
             /\ start % 16 = 0
             /\ start < end
             /\ end <= payload_offset
             /\ FragmentsFill(i, start, end)
             /\ i < N => end <= PayloadStart(i + 1)
    /\ call.op \in AddCalls =>
          /\ payload_offset = before.payload_offset + RoundUp16(CalledPayloadLen)
          /\ payload_offset > before.payload_offset
          /\ raised = "None" =>
                /\ PayloadStart(N) = before.payload_offset
                /\ PayloadLen(N) = CalledPayloadLen

C29_PayloadsDisjoint == PayloadsDisjoint

\* two packets of 72 bytes in fragments: the second begins at 80, the first
\* ends at 72
C29_Witness ==
    /\ DataAdded
    /\ N = 2
    /\ call.fragments = 3
    /\ PayloadLen(1) = 72
    /\ PayloadEnd(1) = 72
    /\ PayloadStart(2) = 80
    /\ PayloadEnd(2) = 152

(***************************************************************************)
(* C28  For every program built only through add_data_packet and           *)
(* add_nodata_packet on which validate returns no findings, every block's  *)
(* zValue is at most 15, so packing a pointer to any block never truncates *)
(* Z (in particular never yields Z=0, the end-of-list marker, for a        *)
(* non-empty block).                                                       *)
(***************************************************************************)
\* every block has the address and the descriptors the two add calls give it:
\* contiguous addresses from the base address, one immediate header, then
\* fragments (behind a StoreValue or not)
BuiltByAddCalls ==
    \A i \in 1..N :
        /\ blocks[i].address
              = (IF i = 1 THEN base_address
                 ELSE AddU(blocks[i - 1].address, 16 * Units(blocks, i - 1)))
        /\ \E f \in 1..Len(blocks[i].descriptors) : \E with_store \in BOOLEAN :
              Classes(blocks[i]) = DataClasses(f, with_store)

ValidatedZFits ==
    (validate_errors = <<>> /\ BuiltByAddCalls) =>
        \A i \in 1..N :
            /\ z_value(blocks[i]) <= 15
            /\ LowNibble(pack_ptr_with_z(blocks[i].address, z_value(blocks[i])))
                  = Units(blocks, i)
            /\ LowNibble(pack_ptr_with_z(blocks[i].address, z_value(blocks[i]))) # 0

C28_ValidatedZFits == Validated => ValidatedZFits

\* validate has returned no findings for a program whose largest block has
\* the most OUTPUT_MORE descriptors validate accepts (Z = 11)
C28_Witness ==
    /\ Validated
    /\ validate_errors = <<>>
    /\ BuiltByAddCalls
    /\ N = 2
    /\ \E i \in 1..N : more_count(blocks[i]) = 8 /\ z_value(blocks[i]) = 11

(***************************************************************************)
(* C25  Linking covers every terminal variant: after finalize_ring on any  *)
(* block list, the terminal descriptor of each block, whether OutputLast,  *)
(* OutputLastSkip or OutputLastImmediate, has its branch pointer set to    *)
(* the next block in circular order (address and zValue of                 *)
(* blocks[(i+1) mod N]); no OutputLast-family terminal is left with its    *)
(* pre-link pointer.                                                       *)
(***************************************************************************)
\* the terminal descriptors of the classes in family point to the next block,
\* in the block list and in the returned bytes
TerminalsLinked(out, family) ==
    \A i \in 1..N :
        (blocks[i].descriptors # <<>> /\ blocks[i].descriptors[Terminal(i)].cls \in family) =>
            LET d == blocks[i].descriptors[Terminal(i)]
                next == blocks[Succ(i)]
            IN /\ d.branch_address = next.address
               /\ d.branch_z = z_value(next)
               /\ TerminalBranchWord(out, i) = pack_ptr_with_z(next.address, z_value(next))

C25_EveryTerminalLinked == Finalized => TerminalsLinked(returned_bytes, OutputLastFamily)

\* what the code does: OutputLast and OutputLastSkip terminals are linked, an
\* OutputLastImmediate keeps the pointer it had
C25_TerminalsLinkedAsCoded ==
    Finalized =>
        /\ TerminalsLinked(returned_bytes, {"OutputLast", "OutputLastSkip"})
        /\ \A i \in 1..N : \A j \in 1..Len(blocks[i].descriptors) :
              blocks[i].descriptors[j].cls = "OutputLastImmediate" =>
                  /\ blocks[i].descriptors[j] = before.blocks[i].descriptors[j]
                  /\ PointerWord(returned_bytes, i, j) = NullU

(***************************************************************************)
(* C26  Every Immediate-keyed descriptor encodes to exactly 32 bytes laid  *)
(* out as a 16-byte header (control word, pointer, two reserved words)     *)
(* followed by the two header quadlets as trailing payload in the second   *)
(* 16-byte block, each quadlet in big-endian byte order; the branch/skip   *)
(* pointer sits at the same header position as in standard descriptors.    *)
(***************************************************************************)
\* the bytes of a 32-bit number, most significant first
BE32(w) == <<w.hi \div 256, w.hi % 256, w.lo \div 256, w.lo % 256>>

\* the pointer an immediate descriptor carries
PointerOf(d) ==
    IF d.cls = "OutputMoreImmediate"
    THEN pack_ptr_with_z(d.skip_address, d.skip_z)
    ELSE pack_ptr_with_z(d.branch_address, d.branch_z)

ImmediateLayout(out) ==
    \A i \in 1..N : \A j \in 1..Len(blocks[i].descriptors) :
        LET d == blocks[i].descriptors[j]
            off == DescOffset(i, j)
        IN d.cls \in ImmediateKeyed =>
              /\ Len(to_bytes(d)) = 32
              /\ HalfAt(out, off) = 8
              /\ (HalfAt(out, off + 2) \div 256) % 8 = ITKey.IMMEDIATE
              \* the pointer is the third word, where pack_desc16 puts the
              \* branch pointer of a standard descriptor
              /\ WordAt(out, off + 8) = PointerOf(d)
              /\ WordAt(out, off + 4) = NullU
              /\ WordAt(out, off + 12) = NullU
              /\ SubSeq(out, off + 17, off + 20) = BE32(Mask32(d.it_q0))
              /\ SubSeq(out, off + 21, off + 24) = BE32(Mask32(d.it_q1))

C26_ImmediateLayout == Finalized => ImmediateLayout(returned_bytes)

\* what the code does: the pointer is the second word, the quadlets are the
\* third and fourth words of the first 16 bytes, little-endian like every
\* other word, and the second 16 bytes are zero
ImmediateLayoutAsCoded(out) ==
    \A i \in 1..N : \A j \in 1..Len(blocks[i].descriptors) :
        LET d == blocks[i].descriptors[j]
            off == DescOffset(i, j)
        IN d.cls \in ImmediateKeyed =>
              /\ Len(to_bytes(d)) = 32
              /\ HalfAt(out, off) = 8
              /\ (HalfAt(out, off + 2) \div 256) % 8 = ITKey.IMMEDIATE
              /\ WordAt(out, off + 4) = PointerOf(d)
              /\ WordAt(out, off + 8) = Mask32(d.it_q0)
              /\ WordAt(out, off + 12) = Mask32(d.it_q1)
              /\ SubSeq(out, off + 17, off + 32) = Zeros(16)

C26_ImmediateLayoutAsCoded == Finalized => ImmediateLayoutAsCoded(returned_bytes)

====
